---- MODULE Spec2Model ----
(***************************************************************************)
(* Model of gather_modules.py: one invocation of _main, stepping through   *)
(* generate_page -> process_all_results -> gather_from_files               *)
(* (get_areas, extract_bubble_data, merge) -> index.html -> data.js.       *)
(*                                                                         *)
(* Strings that the code takes apart are sequences: a record name is a     *)
(* sequence of characters, a line of regions.js is a sequence of lexical   *)
(* tokens ("var ", "resultsData =", " ", the two halves of the object      *)
(* literal, ";", other text, and the line terminator).  A Python dict is   *)
(* a sequence of entries in insertion order.  A Python set of strings is   *)
(* iterated in an order that depends on the per-process hash seed, so its  *)
(* iteration order is a free choice among the permutations.                *)
(***************************************************************************)
EXTENDS Integers, Sequences, FiniteSets, TLC

VARIABLES
    inIsDir,      \* os.path.isdir(input_dir)
    outKind,      \* the output path: "absent", "dir" or "file"
    inputs,       \* glob(input_dir/*): the candidate paths, in listing order
    run,          \* 1 for the first invocation, 2 for a repeated one
    prevData,     \* data.js of the first invocation (optional)
    pc,           \* position in the program
    i,            \* index of the input being gathered
    areas,        \* get_areas' result for input i (dict, insertion order)
    bubble_data,  \* extract_bubble_data's result for input i
    jsontext,     \* the text last handed to json.loads by extract_bubble_data
    gathered,     \* gather_from_files' result for the last merged input
    collected,    \* the list process_all_results is building
    all_results,  \* generate_page's all_results, once process_all_results returned
    indexHtml,    \* index.html: optional list of written blocks
    dataJs,       \* data.js: optional content
    deps,         \* the bundled dependencies were copied
    exc,          \* the exception in flight (optional)
    stderr,       \* what _main printed to the error stream (optional)
    ret           \* _main's return value (optional)

vars == <<inIsDir, outKind, inputs, run, prevData, pc, i, areas, bubble_data,
          jsontext, gathered, collected, all_results, indexHtml, dataJs, deps, exc,
          stderr, ret>>

----
\* Bounds of the model.

\* candidate paths in the input directory (multi-directory runs)
MaxDirs == 2
\* records in one results file (single-directory runs)
MaxRecords == 2
\* areas in one results file, over all its records (single-directory runs)
MaxTotalAreas == 2
\* lines of regions.js (bubble-extraction runs)
MaxLines == 3
\* largest schema number tried
MaxSchema == 5

----
\* Values standing for "nothing there".

\* An optional value is a sequence of length 0 (nothing) or 1 (the value).
Nothing == <<>>
Some(v) == <<v>>
IsSome(o) == Len(o) = 1
The(o) == o[1]

\* The two schema versions get_areas accepts.
SchemaLow == 2
SchemaHigh == 3
\* full_results.get("schema", 0)
SchemaDefault == 0

\* Tokens of a regions.js line.
VAR == "var "
RD == "resultsData ="
SP == " "
NL == "\n"
OB == "{"
CB == "}"
SEMI == ";"
TEXT == "x"

\* Messages of the exceptions.
MsgIncompatible == "incompatible antiSMASH results file schema version"
MsgNoResultsFile == "No results file ('*.json') in result directory"
MsgNoMarker == "Javascript data does not contain relevant results"
MsgNoDirs == "No result directories provided"
MsgNoRegions == "No such file or directory: regions.js"
MsgJsonDecode == "JSONDecodeError"
MsgNotADir == "Input is not a directory"

\* The suffix of a container's id in index.html.
ContainerSuffix == <<"-domain-bubble-svg-container">>

----
\* Sequence helpers.

Range(s) == {s[k] : k \in DOMAIN s}

SeqsUpTo(S, n) == UNION {[1..k -> S] : k \in 0..n}

RECURSIVE SumSeq(_)
SumSeq(s) == IF s = <<>> THEN 0 ELSE Head(s) + SumSeq(Tail(s))

RECURSIVE Flatten(_)
Flatten(ss) == IF ss = <<>> THEN <<>> ELSE Head(ss) \o Flatten(Tail(ss))

\* All the orders in which a set can be iterated.
Orders(S) == {o \in [1..Cardinality(S) -> S] : \A a, b \in DOMAIN o : a # b => o[a] # o[b]}

StartsWith(s, p) == Len(s) >= Len(p) /\ SubSeq(s, 1, Len(p)) = p

----
\* Python dicts: sequences of [key, value] entries in insertion order, keys unique.

\* dict.get(k): the value (optional)
DictGet(d, k) ==
    LET hits == {j \in DOMAIN d : d[j].key = k}
    IN  IF hits = {} THEN Nothing ELSE Some(d[CHOOSE j \in hits : TRUE].value)

\* list(d.values())
DictValues(d) == [j \in DOMAIN d |-> d[j].value]

\* set.add / the set of a comprehension
SetOf(s) == Range(s)

----
\* get_areas

\* VISUALISER_ROOT + ".bubble_view"
BubbleKey == "antismash.outputs.html.visualisers.bubble_view"

\* f"r{r_index + 1}c{c_index + 1}"
AnchorOf(r, c) == <<"r", r, "c", c>>

\* full_results.get("schema", 0)
SchemaOf(json) == IF IsSome(json.schema) THEN The(json.schema) ELSE SchemaDefault

SchemaAcceptedUpTo4(schema) == SchemaLow <= schema /\ schema <= SchemaHigh + 1

\* 2 <= schema <= 3
SchemaAccepted(schema) == SchemaLow <= schema /\ schema <= SchemaHigh

\* the areas of one record, keyed by anchor
RecordAreas(r, record) ==
    [c \in DOMAIN record.areas |->
        [key |-> AnchorOf(r, c),
         value |-> [name |-> record.id,
                    start |-> record.areas[c].start,
                    end |-> record.areas[c].end,
                    products |-> record.areas[c].products]]]

\* the loop over records and areas: the dict of all areas, in document order
AllAreas(records) == Flatten([r \in DOMAIN records |-> RecordAreas(r, records[r])])

\* get_areas: an InputError, or the areas
GetAreasResult(json) ==
    IF ~SchemaAccepted(SchemaOf(json))
    THEN [exc |-> Some([type |-> "InputError", msg |-> MsgIncompatible]), areas |-> <<>>]
    ELSE [exc |-> Nothing, areas |-> AllAreas(json.records)]

----
\* extract_bubble_data

\* handle.readlines(): every line keeps its terminator
ReadLines(file) == [k \in DOMAIN file |-> file[k] \o <<NL>>]

\* lines[i].startswith("var resultsData =")
IsMarkerLine(line) == StartsWith(line, <<VAR, RD>>)

\* lines[i].startswith("var ")
IsVarLine(line) == StartsWith(line, <<VAR>>)

\* the first while loop: the index of the first marker line, or len(lines) + 1
RECURSIVE SkipToMarker(_, _)
SkipToMarker(lines, k) ==
    IF k <= Len(lines) /\ ~IsMarkerLine(lines[k]) THEN SkipToMarker(lines, k + 1) ELSE k

\* str.replace(pat, ""): every occurrence, left to right
RECURSIVE RemoveAll(_, _)
RemoveAll(line, pat) ==
    IF line = <<>> THEN <<>>
    ELSE IF StartsWith(line, pat)
         THEN RemoveAll(SubSeq(line, Len(pat) + 1, Len(line)), pat)
         ELSE <<Head(line)>> \o RemoveAll(Tail(line), pat)

\* the second while loop: the lines from k up to the next "var " line
RECURSIVE Collect(_, _)
Collect(lines, k) ==
    IF k <= Len(lines) /\ ~IsVarLine(lines[k])
    THEN <<lines[k]>> \o Collect(lines, k + 1)
    ELSE <<>>

\* " ".join(section)
RECURSIVE JoinSpace(_)
JoinSpace(section) ==
    IF section = <<>> THEN <<>>
    ELSE IF Len(section) = 1 THEN Head(section)
    ELSE Head(section) \o <<SP>> \o JoinSpace(Tail(section))

\* str.rstrip(chars): every trailing token of the set
RECURSIVE RStrip(_, _)
RStrip(text, chars) ==
    IF text # <<>> /\ text[Len(text)] \in chars
    THEN RStrip(SubSeq(text, 1, Len(text) - 1), chars)
    ELSE text

Whitespace == {SP, NL}

\* the argument of json.loads
SlicedText(lines, k) ==
    LET stripped == [lines EXCEPT ![k] = RemoveAll(lines[k], <<VAR, RD, SP>>)]
    IN  RStrip(RStrip(JoinSpace(Collect(stripped, k)), Whitespace), {SEMI})

\* json.loads accepts the text when it is the object literal, whitespace aside
IsJsonObject(text) == SelectSeq(text, LAMBDA t : t \notin Whitespace) = <<OB, CB>>

\* the final loop: anchor -> data.get(bubble_view)
BubbleView(obj) == [j \in DOMAIN obj |-> [key |-> obj[j].key, value |-> DictGet(obj[j].value, BubbleKey)]]

\* extract_bubble_data: the text it slices out, and a ValueError or the bubble data
ExtractBubbleDataResult(regions) ==
    LET lines == ReadLines(regions.lines)
        k == SkipToMarker(lines, 1)
    IN  IF k > Len(lines)
        THEN [exc |-> Some([type |-> "ValueError", msg |-> MsgNoMarker]),
              text |-> Nothing, data |-> <<>>]
        ELSE IF ~IsJsonObject(SlicedText(lines, k))
        THEN [exc |-> Some([type |-> "ValueError", msg |-> MsgJsonDecode]),
              text |-> Some(SlicedText(lines, k)), data |-> <<>>]
        ELSE [exc |-> Nothing, text |-> Some(SlicedText(lines, k)),
              data |-> BubbleView(regions.obj)]

----
\* gather_from_files, after the two extractions

\* bubble_data.get(anchor): None when the anchor is missing or its view is None
Bubbles(bdata, anchor) ==
    LET got == DictGet(bdata, anchor)
    IN  IF IsSome(got) THEN The(got) ELSE Nothing

\* the truth value of "bubbles": neither None nor an empty dict
Truthy(bubbles) == IsSome(bubbles) /\ The(bubbles) # <<>>

\* list(bubbles.values())[0]
FirstVariant(bubbles) == DictValues(The(bubbles))[1]

\* records[name]["areas"].append(area)
AppendArea(records, name, area) ==
    [k \in DOMAIN records |->
        IF records[k].name = name
        THEN [records[k] EXCEPT !.areas = Append(@, area)]
        ELSE records[k]]

\* the loop over areas.items()
RECURSIVE MergeLoop(_, _, _)
MergeLoop(todo, bdata, records) ==
    IF todo = <<>> THEN records
    ELSE LET anchor == Head(todo).key
             area == Head(todo).value
             bubbles == Bubbles(bdata, anchor)
         IN  IF ~Truthy(bubbles)
             THEN MergeLoop(Tail(todo), bdata, records)
             ELSE MergeLoop(Tail(todo), bdata,
                    AppendArea(records, area.name,
                        [start |-> area.start, end |-> area.end,
                         products |-> area.products,
                         bubbles |-> FirstVariant(bubbles)]))

\* {area["name"] for area in areas.values()}
RecordNames(areadict) == SetOf([j \in DOMAIN areadict |-> areadict[j].value.name])

KeepsEveryRecord(record) == TRUE

\* the filter of the last comprehension: value["areas"]
HasAreas(record) == record.areas # <<>>

\* the records of one directory; order is the iteration order of the name set
MergeRecords(areadict, bdata, order) ==
    LET empty == [k \in DOMAIN order |-> [name |-> order[k], areas |-> <<>>]]
    IN  SelectSeq(MergeLoop(areadict, bdata, empty), HasAreas)

----
\* generate_page

Digit(d) == CASE d = 0 -> "0" [] d = 1 -> "1" [] d = 2 -> "2" [] d = 3 -> "3"
              [] d = 4 -> "4" [] d = 5 -> "5" [] d = 6 -> "6" [] d = 7 -> "7"
              [] d = 8 -> "8" [] d = 9 -> "9"

\* str(n) of an integer
RECURSIVE IntToStr(_)
IntToStr(n) ==
    IF n < 0 THEN <<"-">> \o IntToStr(0 - n)
    ELSE IF n < 10 THEN <<Digit(n)>>
    ELSE IntToStr(n \div 10) \o <<Digit(n % 10)>>

\* name.replace(".", "-")
ReplaceDots(name) == [k \in DOMAIN name |-> IF name[k] = "." THEN "-" ELSE name[k]]

\* f'{record["name"].replace(".", "-")}-{area["start"]}'
AreaAnchor(name, start) == ReplaceDots(name) \o <<"-">> \o IntToStr(start)

\* f"{area['anchor']}-domain-bubble-svg-container"
ContainerId(anchor) == anchor \o ContainerSuffix

\* area["anchor"] = ...: every area of every record gains its anchor
WithAnchors(results) ==
    [r \in DOMAIN results |->
        [name |-> results[r].name,
         areas |-> [a \in DOMAIN results[r].areas |->
            [start |-> results[r].areas[a].start,
             end |-> results[r].areas[a].end,
             products |-> results[r].areas[a].products,
             bubbles |-> results[r].areas[a].bubbles,
             anchor |-> AreaAnchor(results[r].name, results[r].areas[a].start)]]]]

\* ", ".join(products)
RECURSIVE JoinComma(_)
JoinComma(products) ==
    IF products = <<>> THEN <<>>
    ELSE IF Len(products) = 1 THEN products
    ELSE <<Head(products), ", ">> \o JoinComma(Tail(products))

\* the label block and the container written for one area
AreaBlock(name, area) ==
    [label |-> <<name, IntToStr(area.start) \o <<"-">> \o IntToStr(area.end),
                 JoinComma(area.products)>>,
     id |-> ContainerId(AreaAnchor(name, area.start))]

\* the body of index.html: the blocks of all areas, in order
IndexBlocks(results) ==
    Flatten([r \in DOMAIN results |->
        [a \in DOMAIN results[r].areas |-> AreaBlock(results[r].name, results[r].areas[a])]])

\* "var data = " + json.dump(all_results, indent=1) + ";"
DataJsContent(results) == <<"var data = ", results, ";">>

OnlyOSErrorCaught(type) == type = "OSError"

\* except (OSError, InputError)
Caught(type) == type \in {"OSError", "InputError"}

----
\* The inputs: what the file system holds.

\* A candidate path: [isdir, json (optional results file), regions (optional regions.js)].
\* A results file: [schema (optional integer), records]; a record: [id, areas];
\* regions.js: [lines, obj], obj being the object literal the tokens OB CB stand for.

\* Record identifiers, as sequences of characters.
Names == {<<"a", ".", "b">>, <<"a", "-", "b">>}

\* What regions.js holds for an area's anchor.
SlotKinds == {"absent", "noview", "emptyview", "emptyvariant", "full"}

\* The j-th area of a results file.
AreaAt(j) == [start |-> 100 * (j - 1), end |-> 100 * (j - 1) + 50, products |-> <<"nrps", "t1pks">>]

\* The entry of resultsData for an anchor, per slot kind.
InnerData(kind) ==
    CASE kind = "noview" ->
            <<[key |-> "antismash.outputs.html.visualisers.gene_table", value |-> <<>>]>>
      [] kind = "emptyview" ->
            <<[key |-> BubbleKey, value |-> <<>>]>>
      [] kind = "emptyvariant" ->
            <<[key |-> BubbleKey, value |-> <<[key |-> "CC1", value |-> <<>>]>>]>>
      [] kind = "full" ->
            <<[key |-> BubbleKey,
               value |-> <<[key |-> "CC1", value |-> <<"m1">>],
                           [key |-> "CC2", value |-> <<"m2">>]>>]>>

\* Number of areas before record r, given the areas per record.
Offset(shape, r) == SumSeq(SubSeq(shape, 1, r - 1))

\* The records of a results file: shape[r] areas in record r, ids[r] its id.
BuildRecords(shape, ids) ==
    [r \in DOMAIN shape |->
        [id |-> ids[r],
         areas |-> [c \in 1..shape[r] |-> AreaAt(Offset(shape, r) + c)]]]

\* The object literal of regions.js: slots[j] says what it holds for the j-th area.
BuildObj(shape, slots) ==
    Flatten([r \in DOMAIN shape |->
        LET present == SelectSeq([c \in 1..shape[r] |-> c],
                                 LAMBDA c : slots[Offset(shape, r) + c] # "absent")
        IN  [k \in DOMAIN present |->
                [key |-> AnchorOf(r, present[k]),
                 value |-> InnerData(slots[Offset(shape, r) + present[k]])]]])

\* A regions.js as antiSMASH writes it.
GoodLines == << <<VAR, TEXT, SEMI>>, <<VAR, RD, SP, OB>>, <<CB, SEMI>>, <<VAR, TEXT, SEMI>> >>

\* A regions.js without the resultsData assignment.
NoMarkerLines == << <<VAR, TEXT, SEMI>> >>

ResultsDir(schema, shape, ids, slots, lines) ==
    [isdir |-> TRUE,
     json |-> Some([schema |-> schema, records |-> BuildRecords(shape, ids)]),
     regions |-> Some([lines |-> lines, obj |-> BuildObj(shape, slots)])]

\* A well-formed results directory with one populated area.
PlainDir == ResultsDir(Some(SchemaLow), <<1>>, <<CHOOSE n \in Names : TRUE>>, <<"full">>, GoodLines)

\* The candidates that make gather_from_files fail, one of each kind.
NotADir == [isdir |-> FALSE, json |-> Nothing, regions |-> Nothing]
NoJsonDir == [PlainDir EXCEPT !.json = Nothing]
BadSchemaDir == [PlainDir EXCEPT !.json = Some([The(@) EXCEPT !.schema = Some(SchemaHigh + 2)])]
NoRegionsDir == [PlainDir EXCEPT !.regions = Nothing]
NoMarkerDir == [PlainDir EXCEPT !.regions = Some([The(@) EXCEPT !.lines = NoMarkerLines])]
FailingDirs == {NotADir, NoJsonDir, BadSchemaDir, NoRegionsDir, NoMarkerDir}

\* Multi-directory runs: directories of up to two one-area records.
PipeDirs ==
    {ResultsDir(Some(SchemaHigh), sh, ids, [j \in DOMAIN sh |-> "full"], GoodLines) :
        sh \in {<<>>, <<1>>, <<1, 1>>}, ids \in [1..2 -> Names]}
    \cup {ResultsDir(Some(SchemaLow), <<1>>, <<n>>, <<"absent">>, GoodLines) : n \in Names}

PipeInputs == SeqsUpTo(PipeDirs \cup FailingDirs, MaxDirs)

\* Single-directory runs: every shape of results file within the bounds, every
\* kind of regions.js entry per area.
Shapes == {sh \in SeqsUpTo(0..MaxTotalAreas, MaxRecords) : SumSeq(sh) <= MaxTotalAreas}

GatherDirs ==
    UNION {{ResultsDir(Some(SchemaHigh), sh, ids, slots, GoodLines) :
                ids \in [DOMAIN sh -> Names], slots \in [1..SumSeq(sh) -> SlotKinds]} :
           sh \in Shapes}

GatherInputs == {<<d>> : d \in GatherDirs \cup FailingDirs}

\* Schema runs: every schema value, present or not.
SchemaVals == {Nothing} \cup {Some(v) : v \in (0 - 2)..MaxSchema}

AreasDirs ==
    {[d EXCEPT !.json = Some([The(@) EXCEPT !.schema = sc])] :
        d \in {p \in PipeDirs : Len(The(p.json).records) >= 1}, sc \in SchemaVals}

AreasInputs == {<<d>> : d \in AreasDirs \cup FailingDirs}

\* Bubble-extraction runs: regions.js made of these lines.
LineVals ==
    { <<VAR, RD, SP, OB, CB, SEMI>>,
      <<VAR, RD, SP, OB>>,
      <<VAR, RD, OB, CB, SEMI>>,
      <<VAR, RD, SP, VAR, RD, SP, OB, CB>>,
      <<OB, CB, SEMI, SEMI>>,
      <<CB, SP, SEMI>>,
      <<CB, SEMI>>,
      <<VAR, TEXT, SEMI>>,
      <<SP, VAR, RD, SP, OB, CB>>,
      <<>> }

BubbleDirs ==
    {[PlainDir EXCEPT !.regions = Some([The(@) EXCEPT !.lines = ls])] :
        ls \in SeqsUpTo(LineVals, MaxLines)}

BubbleInputs == {<<d>> : d \in BubbleDirs \cup FailingDirs}

----
\* The program.

Start(ins, isdir, out) ==
    /\ inIsDir = isdir
    /\ outKind = out
    /\ inputs = ins
    /\ run = 1
    /\ prevData = Nothing
    /\ pc = "main"
    /\ i = 0
    /\ areas = <<>>
    /\ bubble_data = <<>>
    /\ jsontext = Nothing
    /\ gathered = <<>>
    /\ collected = <<>>
    /\ all_results = Nothing
    /\ indexHtml = Nothing
    /\ dataJs = Nothing
    /\ deps = FALSE
    /\ exc = Nothing
    /\ stderr = Nothing
    /\ ret = Nothing

\* Any input path and output path; a path that is no directory lists nothing.
Init ==
    \E isdir \in BOOLEAN, out \in {"absent", "dir", "file"} :
        \E ins \in (IF isdir THEN PipeInputs ELSE {<<>>}) : Start(ins, isdir, out)

InitGather == \E ins \in GatherInputs : Start(ins, TRUE, "absent")
InitAreas == \E ins \in AreasInputs : Start(ins, TRUE, "absent")
InitBubble == \E ins \in BubbleInputs : Start(ins, TRUE, "absent")

Raise(type, msg) ==
    /\ exc' = Some([type |-> type, msg |-> msg])
    /\ pc' = "except"

\* _main up to the call of generate_page
Main ==
    /\ pc = "main"
    /\ IF ~inIsDir
       THEN /\ stderr' = Some(MsgNotADir)
            /\ ret' = Some(1)
            /\ pc' = "exit"
            /\ UNCHANGED outKind
       ELSE IF outKind = "file"
       THEN /\ stderr' = Some(MsgNotADir)
            /\ ret' = Some(1)
            /\ pc' = "exit"
            /\ UNCHANGED outKind
       ELSE /\ outKind' = "dir"
            /\ pc' = "process"
            /\ UNCHANGED <<stderr, ret>>
    /\ UNCHANGED <<inIsDir, inputs, run, prevData, i, areas, bubble_data, jsontext,
                   gathered, collected, all_results, indexHtml, dataJs, deps, exc>>

\* process_all_results: the check of its argument
ProcessAllResults ==
    /\ pc = "process"
    /\ IF inputs = <<>>
       THEN /\ Raise("ValueError", MsgNoDirs)
            /\ UNCHANGED i
       ELSE /\ i' = 1
            /\ pc' = "glob"
            /\ UNCHANGED exc
    /\ UNCHANGED <<inIsDir, outKind, inputs, run, prevData, areas, bubble_data, jsontext,
                   gathered, collected, all_results, indexHtml, dataJs, deps, stderr, ret>>

\* gather_from_files: the glob for the results file
GlobJson ==
    /\ pc = "glob"
    /\ IF ~(inputs[i].isdir /\ IsSome(inputs[i].json))
       THEN Raise("InputError", MsgNoResultsFile)
       ELSE /\ pc' = "get_areas"
            /\ UNCHANGED exc
    /\ UNCHANGED <<inIsDir, outKind, inputs, run, prevData, i, areas, bubble_data, jsontext,
                   gathered, collected, all_results, indexHtml, dataJs, deps, stderr, ret>>

\* gather_from_files: get_areas on the results file
GetAreas ==
    /\ pc = "get_areas"
    /\ LET res == GetAreasResult(The(inputs[i].json))
       IN  /\ areas' = res.areas
           /\ IF IsSome(res.exc)
              THEN Raise(The(res.exc).type, The(res.exc).msg)
              ELSE /\ pc' = "extract"
                   /\ UNCHANGED exc
    /\ UNCHANGED <<inIsDir, outKind, inputs, run, prevData, i, bubble_data, jsontext,
                   gathered, collected, all_results, indexHtml, dataJs, deps, stderr, ret>>

\* gather_from_files: open regions.js, extract_bubble_data
ExtractBubbleData ==
    /\ pc = "extract"
    /\ IF ~IsSome(inputs[i].regions)
       THEN /\ Raise("OSError", MsgNoRegions)
            /\ UNCHANGED <<bubble_data, jsontext>>
       ELSE LET res == ExtractBubbleDataResult(The(inputs[i].regions))
            IN  /\ bubble_data' = res.data
                /\ jsontext' = res.text
                /\ IF IsSome(res.exc)
                   THEN Raise(The(res.exc).type, The(res.exc).msg)
                   ELSE /\ pc' = "merge"
                        /\ UNCHANGED exc
    /\ UNCHANGED <<inIsDir, outKind, inputs, run, prevData, i, areas, gathered, collected,
                   all_results, indexHtml, dataJs, deps, stderr, ret>>

\* gather_from_files: group, filter, return; the comprehension of
\* process_all_results takes the records and goes on to the next input
Merge ==
    /\ pc = "merge"
    /\ \E order \in Orders(RecordNames(areas)) :
        LET recs == MergeRecords(areas, bubble_data, order)
        IN  /\ gathered' = recs
            /\ collected' = collected \o recs
            /\ IF i < Len(inputs)
               THEN /\ i' = i + 1
                    /\ pc' = "glob"
                    /\ UNCHANGED all_results
               ELSE /\ all_results' = Some(collected \o recs)
                    /\ pc' = "index"
                    /\ UNCHANGED i
    /\ UNCHANGED <<inIsDir, outKind, inputs, run, prevData, areas, bubble_data, jsontext,
                   indexHtml, dataJs, deps, exc, stderr, ret>>

\* generate_page: index.html, and the anchors it adds to the areas
WriteIndex ==
    /\ pc = "index"
    /\ indexHtml' = Some(IndexBlocks(The(all_results)))
    /\ all_results' = Some(WithAnchors(The(all_results)))
    /\ pc' = "data"
    /\ UNCHANGED <<inIsDir, outKind, inputs, run, prevData, i, areas, bubble_data, jsontext,
                   gathered, collected, dataJs, deps, exc, stderr, ret>>

\* generate_page: data.js
WriteData ==
    /\ pc = "data"
    /\ dataJs' = Some(DataJsContent(The(all_results)))
    /\ pc' = "deps"
    /\ UNCHANGED <<inIsDir, outKind, inputs, run, prevData, i, areas, bubble_data, jsontext,
                   gathered, collected, all_results, indexHtml, deps, exc, stderr, ret>>

\* generate_page: the copy of the dependencies; _main returns 0
CopyDependencies ==
    /\ pc = "deps"
    /\ deps' = TRUE
    /\ ret' = Some(0)
    /\ pc' = "exit"
    /\ UNCHANGED <<inIsDir, outKind, inputs, run, prevData, i, areas, bubble_data, jsontext,
                   gathered, collected, all_results, indexHtml, dataJs, exc, stderr>>

\* _main: the except clause, or the exception leaving _main
MainExcept ==
    /\ pc = "except"
    /\ IF Caught(The(exc).type)
       THEN /\ stderr' = Some(The(exc).msg)
            /\ ret' = Some(1)
            /\ pc' = "exit"
       ELSE /\ pc' = "uncaught"
            /\ UNCHANGED <<stderr, ret>>
    /\ UNCHANGED <<inIsDir, outKind, inputs, run, prevData, i, areas, bubble_data, jsontext,
                   gathered, collected, all_results, indexHtml, dataJs, deps, exc>>

\* The program is run once more on the same inputs, into a fresh output directory.
Rerun ==
    /\ pc = "exit"
    /\ ret = Some(0)
    /\ run = 1
    /\ run' = 2
    /\ prevData' = dataJs
    /\ outKind' = "absent"
    /\ pc' = "main"
    /\ i' = 0
    /\ areas' = <<>>
    /\ bubble_data' = <<>>
    /\ jsontext' = Nothing
    /\ gathered' = <<>>
    /\ collected' = <<>>
    /\ all_results' = Nothing
    /\ indexHtml' = Nothing
    /\ dataJs' = Nothing
    /\ deps' = FALSE
    /\ exc' = Nothing
    /\ stderr' = Nothing
    /\ ret' = Nothing
    /\ UNCHANGED <<inIsDir, inputs>>

Next ==
    \/ Main
    \/ ProcessAllResults
    \/ GlobJson
    \/ GetAreas
    \/ ExtractBubbleData
    \/ Merge
    \/ WriteIndex
    \/ WriteData
    \/ CopyDependencies
    \/ MainExcept
    \/ Rerun

Spec == Init /\ [][Next]_vars
SpecGather == InitGather /\ [][Next]_vars
SpecAreas == InitAreas /\ [][Next]_vars
SpecBubble == InitBubble /\ [][Next]_vars

----
\* What the claims speak of, read off the inputs.

Terminated == pc \in {"exit", "uncaught"}

\* gather_from_files has returned for input MergedIdx (0 or less: for none yet)
Completed == pc \in {"index", "data", "deps"} \/ (pc = "exit" /\ ret = Some(0))
MergedIdx == IF Completed THEN i ELSE i - 1

HasJson(d) == d.isdir /\ IsSome(d.json)
SchemaInRange(d) == IsSome(The(d.json).schema) /\ The(The(d.json).schema) \in {2, 3}

\* get_areas has run on input i
AfterGetAreas ==
    /\ i >= 1
    /\ HasJson(inputs[i])
    /\ pc \notin {"main", "process", "glob", "get_areas"}

\* extract_bubble_data has run on input i
AfterExtract ==
    /\ AfterGetAreas
    /\ SchemaInRange(inputs[i])
    /\ IsSome(inputs[i].regions)
    /\ pc # "extract"

\* the bubble payload regions.js holds for area c of record r is a non-empty mapping
Populated(d, r, c) ==
    LET entry == DictGet(The(d.regions).obj, AnchorOf(r, c))
    IN  /\ IsSome(entry)
        /\ IsSome(DictGet(The(entry), BubbleKey))
        /\ The(DictGet(The(entry), BubbleKey)) # <<>>

FileRecords(d) == The(d.json).records

\* M of one record, and M summed over the records that carry one id
PopulatedOfRecord(d, r) ==
    Cardinality({c \in DOMAIN FileRecords(d)[r].areas : Populated(d, r, c)})
RECURSIVE PopulatedUpTo(_, _, _)
PopulatedUpTo(d, n, r) ==
    IF r = 0 THEN 0
    ELSE PopulatedUpTo(d, n, r - 1)
         + (IF FileRecords(d)[r].id = n THEN PopulatedOfRecord(d, r) ELSE 0)
PopulatedOfName(d, n) == PopulatedUpTo(d, n, Len(FileRecords(d)))

FileIds(d) == {FileRecords(d)[r].id : r \in DOMAIN FileRecords(d)}

\* a candidate gather_from_files returns records for
ValidDir(d) ==
    /\ HasJson(d)
    /\ SchemaInRange(d)
    /\ IsSome(d.regions)
    /\ \E k \in DOMAIN The(d.regions).lines :
          /\ StartsWith(The(d.regions).lines[k], <<VAR, RD, SP, OB>>)
          /\ \A j \in 1..(k - 1) : ~StartsWith(The(d.regions).lines[j], <<VAR, RD>>)

\* the first candidate that is no valid results directory (0: there is none)
FirstInvalid ==
    LET bad == {k \in DOMAIN inputs : ~ValidDir(inputs[k])}
    IN  IF bad = {} THEN 0 ELSE CHOOSE k \in bad : \A j \in bad : k <= j

\* a sequence without its repetitions, in first-seen order
RECURSIVE FirstSeen(_)
FirstSeen(s) ==
    IF s = <<>> THEN <<>>
    ELSE LET front == FirstSeen(SubSeq(s, 1, Len(s) - 1))
         IN  IF s[Len(s)] \in Range(front) THEN front ELSE Append(front, s[Len(s)])

\* the ids of a directory's surviving records, in document order
SurvivingIds(d) ==
    FirstSeen(SelectSeq([r \in DOMAIN FileRecords(d) |-> FileRecords(d)[r].id],
                        LAMBDA n : PopulatedOfName(d, n) > 0))

NamesOf(results) == [k \in DOMAIN results |-> results[k].name]

----
\* C7: get_areas succeeds, returning a mapping that has every area of the file,
\* when the integer schema is 2 or 3; for every other integer, and when the
\* schema field is missing, it raises the InputError and returns no mapping.
C7_SchemaRange ==
    AfterGetAreas =>
        IF SchemaInRange(inputs[i])
        THEN /\ ~(IsSome(exc) /\ The(exc).msg = MsgIncompatible)
             /\ Len(areas) = SumSeq([r \in DOMAIN FileRecords(inputs[i]) |->
                                        Len(FileRecords(inputs[i])[r].areas)])
        ELSE /\ exc = Some([type |-> "InputError", msg |-> MsgIncompatible])
             /\ areas = <<>>
             /\ pc \in {"except", "exit"}

\* C7 witness: a results file without the schema field was rejected
C7_Witness ==
    /\ AfterGetAreas
    /\ The(inputs[i].json).schema = Nothing
    /\ exc = Some([type |-> "InputError", msg |-> MsgIncompatible])
    /\ ret = Some(1)

----
\* C1 (as amended): for every record id of a results file, with M the number
\* of areas with a non-empty bubble payload over all the records carrying that
\* id, gather_from_files returns exactly one record of that name, with exactly
\* M areas, when M > 0, and none when M = 0; it returns no other record.
C1_PerName ==
    MergedIdx >= 1 =>
        LET d == inputs[MergedIdx]
        IN  /\ Range(NamesOf(gathered)) \subseteq FileIds(d)
            /\ \A n \in FileIds(d) :
                 LET out == {k \in DOMAIN gathered : gathered[k].name = n}
                     m == PopulatedOfName(d, n)
                 IN  /\ Cardinality(out) = (IF m > 0 THEN 1 ELSE 0)
                     /\ \A k \in out : Len(gathered[k].areas) = m

\* C1 witness: two records of one file carry the same id, each with a populated
\* area, and they came out as one record with both areas
C1_Witness ==
    /\ MergedIdx >= 1
    /\ LET d == inputs[MergedIdx]
       IN  /\ Len(FileRecords(d)) = 2
           /\ FileRecords(d)[1].id = FileRecords(d)[2].id
           /\ PopulatedOfRecord(d, 1) = 1
           /\ PopulatedOfRecord(d, 2) = 1
    /\ Len(gathered) = 1
    /\ Len(gathered[1].areas) = 2

\* C1 (as stated): every record of the file, also one that shares its id with
\* another, yields its own aggregated record with exactly its M areas, and
\* none if its M is 0: the returned (name, area count) pairs are those of the
\* records with M > 0, one for one.
C1_PerRecord ==
    MergedIdx >= 1 =>
        LET d == inputs[MergedIdx]
        IN  \A n \in FileIds(d), m \in 1..Len(AllAreas(FileRecords(d))) :
              Cardinality({k \in DOMAIN gathered :
                              gathered[k].name = n /\ Len(gathered[k].areas) = m})
              = Cardinality({r \in DOMAIN FileRecords(d) :
                              FileRecords(d)[r].id = n /\ PopulatedOfRecord(d, r) = m})

----
\* C2: every area of the records gather_from_files returns has a non-empty
\* bubbles value (an area whose first variant's data is empty is dropped), and
\* every returned record has at least one area.
C2_NonEmptyBubbles ==
    MergedIdx >= 1 =>
        \A k \in DOMAIN gathered :
            /\ gathered[k].areas # <<>>
            /\ \A a \in DOMAIN gathered[k].areas : gathered[k].areas[a].bubbles # <<>>

----
\* C3: the list process_all_results returns has the records of the input
\* directories in the order the directories were given, those of one directory
\* in first-seen order of its results file, and the areas of a record in
\* document order.
C3_DocumentOrder ==
    IsSome(all_results) =>
        /\ NamesOf(The(all_results))
             = Flatten([k \in DOMAIN inputs |-> SurvivingIds(inputs[k])])
        /\ \A r \in DOMAIN The(all_results) :
             \A a, b \in DOMAIN The(all_results)[r].areas :
                a < b => The(all_results)[r].areas[a].start < The(all_results)[r].areas[b].start

----
\* C4: when the candidates include paths that are no directories, and every
\* directory among them (there is one) is a valid results directory, the run
\* does not fail: _main returns 0 with the records of the valid directories in
\* input order.
C4_NonDirectoriesSkipped ==
    (/\ Terminated
     /\ outKind = "dir"
     /\ \E k \in DOMAIN inputs : ~inputs[k].isdir
     /\ \E k \in DOMAIN inputs : ValidDir(inputs[k])
     /\ \A k \in DOMAIN inputs : inputs[k].isdir => ValidDir(inputs[k]))
    => /\ ret = Some(0)
       /\ IsSome(all_results)
       /\ Len(The(all_results))
            = SumSeq([k \in DOMAIN inputs |->
                        IF inputs[k].isdir THEN Len(SurvivingIds(inputs[k])) ELSE 0])

----
\* C5: a run that meets a regions.js without the resultsData marker line ends
\* through _main's error path: the message is on the error stream and _main
\* returns 1; the error does not leave _main uncaught.
C5_MissingMarkerReported ==
    (Terminated /\ IsSome(exc) /\ The(exc).msg = MsgNoMarker)
    => /\ pc = "exit"
       /\ ret = Some(1)
       /\ stderr = Some(MsgNoMarker)

----
\* C6 (as stated): when any input directory's results file declares a schema
\* outside [2, 3], wherever it stands in the input order, _main returns 1 with
\* the "incompatible" message and no index.html was created.  Stated here for
\* the runs whose candidates are all directories and whose regions.js files,
\* where present, all hold the marker line.
C6_AnyBadSchema ==
    (/\ Terminated
     /\ outKind = "dir"
     /\ \A k \in DOMAIN inputs :
            /\ inputs[k].isdir
            /\ IsSome(inputs[k].regions) =>
                  \E j \in DOMAIN The(inputs[k].regions).lines :
                      StartsWith(The(inputs[k].regions).lines[j], <<VAR, RD, SP>>)
     /\ \E k \in DOMAIN inputs : HasJson(inputs[k]) /\ ~SchemaInRange(inputs[k]))
    => /\ ret = Some(1)
       /\ stderr = Some(MsgIncompatible)
       /\ indexHtml = Nothing

\* C6 (as amended): when the first candidate that fails is a directory whose
\* results file declares a schema outside [2, 3] (every candidate before it was
\* extracted successfully) and the output path is usable, _main returns 1 with
\* the "incompatible" message and neither index.html nor data.js was created;
\* and in every run no output file exists before every input was extracted.
C6_FirstFailureBadSchema ==
    /\ (IsSome(indexHtml) \/ IsSome(dataJs))
          => (IsSome(all_results) /\ i = Len(inputs) /\ exc = Nothing)
    /\ (/\ Terminated
        /\ outKind = "dir"
        /\ FirstInvalid >= 1
        /\ HasJson(inputs[FirstInvalid])
        /\ ~SchemaInRange(inputs[FirstInvalid]))
       => /\ ret = Some(1)
          /\ pc = "exit"
          /\ stderr = Some(MsgIncompatible)
          /\ indexHtml = Nothing
          /\ dataJs = Nothing

\* C6 witness: the second directory has the bad schema, the first was merged
\* (its records were collected), and the run ended with exit code 1
C6_Witness ==
    /\ Len(inputs) = 2
    /\ ValidDir(inputs[1])
    /\ HasJson(inputs[2]) /\ ~SchemaInRange(inputs[2])
    /\ collected # <<>>
    /\ pc = "exit"
    /\ ret = Some(1)
    /\ stderr = Some(MsgIncompatible)
    /\ indexHtml = Nothing

----
\* C8: a second run on the same unchanged inputs into a fresh output directory
\* writes the same data.js as the first.
C8_SameDataJs == (run = 2 /\ IsSome(dataJs)) => dataJs = prevData

----
\* C9, the slicing as the claim describes it.

\* the prefix is exactly "var resultsData = "
ClaimIsMarker(line) == StartsWith(line, <<VAR, RD, SP>>)

ClaimMarkerIdx(lines) ==
    LET hits == {k \in DOMAIN lines : ClaimIsMarker(lines[k])}
    IN  IF hits = {} THEN 0 ELSE CHOOSE k \in hits : \A j \in hits : k <= j

\* the lines after the marker line, up to the next line starting with "var "
RECURSIVE ClaimFollowing(_, _)
ClaimFollowing(lines, k) ==
    IF k <= Len(lines) /\ ~StartsWith(lines[k], <<VAR>>)
    THEN <<lines[k]>> \o ClaimFollowing(lines, k + 1)
    ELSE <<>>

\* a single trailing ";" removed
ClaimStripOneSemi(text) ==
    IF text # <<>> /\ text[Len(text)] = SEMI THEN SubSeq(text, 1, Len(text) - 1) ELSE text

ClaimText(lines, k) ==
    ClaimStripOneSemi(RStrip(
        JoinSpace(<<SubSeq(lines[k], 4, Len(lines[k]))>> \o ClaimFollowing(lines, k + 1)),
        Whitespace))

\* C9: extract_bubble_data fails with the missing-marker error when no line
\* has the exact prefix "var resultsData = "; otherwise the text it parses is
\* the first such line without the prefix and the lines after it up to the next
\* "var " line, joined with single spaces, trailing whitespace and one trailing
\* ";" stripped.
C9_SlicedText ==
    AfterExtract =>
        LET lines == ReadLines(The(inputs[i].regions).lines)
            k == ClaimMarkerIdx(lines)
        IN  IF k = 0
            THEN exc = Some([type |-> "ValueError", msg |-> MsgNoMarker])
            ELSE jsontext = Some(ClaimText(lines, k))

----
\* C10: in one generate_page run distinct output areas have distinct container
\* ids in index.html and distinct anchor values in data.js.
C10_DistinctAnchors ==
    IsSome(indexHtml) =>
        \A a, b \in DOMAIN The(indexHtml) :
            a # b => The(indexHtml)[a].id # The(indexHtml)[b].id

====
